---- MODULE Spec2Model ----
(***************************************************************************)
(* The sign-in pipeline of the EyeMax API (routes/auth.js): the two        *)
(* handlers POST /api/auth/google and POST /api/auth/apple, the upsertUser *)
(* statement they run against the users table, and generateToken.         *)
(*                                                                         *)
(* A handler is an async function: it runs without interruption from one   *)
(* await to the next.  The model has one action per such segment, and one  *)
(* for the database executing the statement a handler has sent.            *)
(***************************************************************************)
EXTENDS Integers, Sequences, FiniteSets, TLC

\* ------------------------------------------------------------------ bounds
\* Number of sign-in requests that may be in flight together.
NReq == 2
\* Number of session tokens issued in the token specification.
MaxIssued == 2
\* Whole seconds the token clock may run past an instant of interest.
MaxSec == 2

Reqs == 1 .. NReq

\* ------------------------------------------------------------- JS values
Undefined == "undefined"
\* What pg stores for an undefined parameter, and returns for a NULL column.
Null == "NULL"
Emails == {"a@x.com", "b@x.com"}
Providers == {"google", "apple"}

\* ----------------------------------------------------------- environment
GOOGLE_CLIENT_ID == "google-client-id"
APPLE_CLIENT_ID == "apple-client-id"

VARIABLES
    envSecret,      \* process.env.JWT_SECRET
    emailNotNull,   \* whether users.email is declared NOT NULL
    users,          \* the users table: rows [id, email, password_hash]
    nextId,         \* the id the store gives the next inserted row
    pc,             \* per request: where its handler is
    endpoint,       \* per request: "google" or "apple"
    idToken,        \* per request: req.body.idToken
    verifier,       \* per request: the state of its awaited verifyIdToken call
    email,          \* per request: the handler's local `email`
    result,         \* per request: what the awaited upsertUser settled to
    resp,           \* per request: the response sent
    log,            \* per request: the calls the handler has made, in order
    now,            \* the wall clock, [s |-> seconds, ms |-> milliseconds]
    issued,         \* token specification: tokens issued, with their instant
    verdict         \* token specification: the last verification made

reqVars == <<pc, endpoint, idToken, verifier, email, result, resp, log>>
dbVars == <<users, nextId>>
envVars == <<envSecret, emailNotNull>>
tokVars == <<issued, verdict>>
vars == <<envSecret, emailNotNull, users, nextId, pc, endpoint, idToken, verifier,
          email, result, resp, log, now, issued, verdict>>

\* const JWT_SECRET = process.env.JWT_SECRET || 'supersecretbackup';
JWT_SECRET ==
    IF envSecret = Undefined \/ envSecret = "" THEN "supersecretbackup" ELSE envSecret

\* -------------------------------------------------------- provider tokens
\* req.body.idToken: absent, the empty string, or a JWT of the provider.  A
\* JWT is described by what the provider's verifier looks at (signature,
\* audience, expiry), by the two claims the handlers read, and by sub, the
\* provider's name for the account, which the handlers do not read.
NoToken ==
    [kind |-> "undefined", aud |-> Undefined, expired |-> FALSE, sigOk |-> FALSE,
     sub |-> Undefined, email |-> Undefined, email_verified |-> Undefined]
EmptyToken ==
    [kind |-> "empty", aud |-> Undefined, expired |-> FALSE, sigOk |-> FALSE,
     sub |-> Undefined, email |-> Undefined, email_verified |-> Undefined]
Jwt(aud, expired, sigOk, sub, em, ev) ==
    [kind |-> "jwt", aud |-> aud, expired |-> expired, sigOk |-> sigOk,
     sub |-> sub, email |-> em, email_verified |-> ev]

\* The account behind an email, and the accounts that share no email.
SubOf(e) == IF e = "a@x.com" THEN "sub-a" ELSE "sub-b"
NoEmailSubs == {"sub-1", "sub-2"}

ClientId(p) == IF p = "google" THEN GOOGLE_CLIENT_ID ELSE APPLE_CLIENT_ID
OtherClientId(p) == IF p = "google" THEN APPLE_CLIENT_ID ELSE GOOGLE_CLIENT_ID

\* The tokens a client may post to endpoint p.  Of the tokens without an
\* email claim, only Apple's are told apart by account and by whether they
\* carry email_verified, the claim the apple handler falls back to; the google
\* handler reads neither.
TokensFor(p) ==
    {NoToken, EmptyToken,
     Jwt(OtherClientId(p), FALSE, TRUE, "sub-a", "a@x.com", "true"),
     Jwt(ClientId(p), TRUE, TRUE, "sub-a", "a@x.com", "true"),
     Jwt(ClientId(p), FALSE, FALSE, "sub-a", "a@x.com", "true")}
    \cup {Jwt(ClientId(p), FALSE, TRUE, SubOf(e), e, "true") : e \in Emails}
    \cup {Jwt(ClientId(p), FALSE, TRUE, s, Undefined, "true") :
                s \in (IF p = "apple" THEN NoEmailSubs ELSE {})}
    \cup {Jwt(ClientId(p), FALSE, TRUE, "sub-1", Undefined, Undefined)}

\* if (!idToken)
Falsy(v) == v = Undefined \/ v = "" \/ v = Null
\* if (idToken === undefined), which lets the empty string through.
MissingIdTokenUndefinedOnly(t) == t.kind = "undefined"
MissingIdToken(t) == t.kind \in {"undefined", "empty"}

\* googleClient.verifyIdToken({idToken, audience: GOOGLE_CLIENT_ID}) and
\* appleSigninAuth.verifyIdToken(idToken, {audience, ignoreExpiration: false}):
\* TRUE when the call resolves, FALSE when it throws.
\* The same with ignoreExpiration: true.
verifyIdTokenIgnoreExpiration(t, audience) == t.sigOk /\ t.aud = audience
verifyIdToken(t, audience) == t.sigOk /\ t.aud = audience /\ ~t.expired

\* google: payload.email;  apple: decoded.email || decoded.email_verified
ExtractEmail(p, t) ==
    IF p = "google" THEN t.email
    ELSE IF Falsy(t.email) THEN t.email_verified ELSE t.email

\* --------------------------------------------------------- the users table
\* pg sends an undefined parameter as NULL.
ToParam(v) == IF v = Undefined THEN Null ELSE v

RowOf(tbl, em) == CHOOSE u \in tbl : u.email = em
HasRow(tbl, em) == \E u \in tbl : u.email = em

\* What one statement does: the table and sequence after it, the row it
\* returns (RETURNING id, email) and the error it raises, if any.
Outcome(tbl, nid, id, em, err) ==
    [users |-> tbl, nextId |-> nid, id |-> id, email |-> em, err |-> err]

\* INSERT without the ON CONFLICT clause: the unique index rejects the row.
upsertUserPlainInsert(tbl, nid, notNull, em, provider) ==
    LET e == ToParam(em) IN
    IF e = Null /\ notNull THEN Outcome(tbl, nid, 0, Null, "not_null_violation")
    ELSE IF e # Null /\ HasRow(tbl, e)
    THEN Outcome(tbl, nid, 0, Null, "unique_violation")
    ELSE Outcome(tbl \cup {[id |-> nid, email |-> e, password_hash |-> provider]},
                 nid + 1, nid, e, "none")

\* On conflict the old row is dropped and a new one inserted (REPLACE).
upsertUserReplace(tbl, nid, notNull, em, provider) ==
    LET e == ToParam(em) IN
    IF e = Null /\ notNull THEN Outcome(tbl, nid, 0, Null, "not_null_violation")
    ELSE Outcome({u \in tbl : u.email # e \/ e = Null}
                     \cup {[id |-> nid, email |-> e, password_hash |-> provider]},
                 nid + 1, nid, e, "none")

\* On conflict the tag is overwritten: DO UPDATE SET password_hash = EXCLUDED.password_hash
upsertUserRetag(tbl, nid, notNull, em, provider) ==
    LET e == ToParam(em) IN
    IF e = Null /\ notNull THEN Outcome(tbl, nid, 0, Null, "not_null_violation")
    ELSE IF e # Null /\ HasRow(tbl, e)
    THEN LET old == RowOf(tbl, e) IN
         Outcome((tbl \ {old}) \cup {[old EXCEPT !.password_hash = provider]},
                 nid, old.id, old.email, "none")
    ELSE Outcome(tbl \cup {[id |-> nid, email |-> e, password_hash |-> provider]},
                 nid + 1, nid, e, "none")

\* INSERT INTO users (email, password_hash) VALUES ($1, $2)
\* ON CONFLICT (email) DO UPDATE SET email = EXCLUDED.email
\* RETURNING id, email;
\* A NULL email conflicts with nothing (NULLs are distinct in a unique
\* index), so it is inserted, or rejected where the column is NOT NULL.  On a
\* conflict the row's email is set to the value it already has, and
\* password_hash is left as it was.
upsertUser(tbl, nid, notNull, em, provider) ==
    LET e == ToParam(em) IN
    IF e = Null /\ notNull THEN Outcome(tbl, nid, 0, Null, "not_null_violation")
    ELSE IF e # Null /\ HasRow(tbl, e)
    THEN LET old == RowOf(tbl, e)
             new == [old EXCEPT !.email = e] IN
         Outcome((tbl \ {old}) \cup {new}, nid, new.id, new.email, "none")
    ELSE Outcome(tbl \cup {[id |-> nid, email |-> e, password_hash |-> provider]},
                 nid + 1, nid, e, "none")

\* ----------------------------------------------------------- session token
\* '30d' in seconds, as jsonwebtoken computes it (ms('30d') / 1000).
THIRTY_DAYS == 2592000

\* Math.floor(Date.now() / 1000)
Timestamp(t) == t.s

\* jwt.sign(payload, secret, {expiresIn}): iat is the whole second of the
\* clock, exp = iat + expiresIn; the signature is made with secret.
jwtSign(payload, secret, expiresIn, t) ==
    [id |-> payload.id, email |-> payload.email,
     iat |-> Timestamp(t), exp |-> Timestamp(t) + expiresIn, key |-> secret]

\* The same with expiresIn: 30, which jsonwebtoken reads as seconds.
generateTokenThirtySeconds(user, t) ==
    jwtSign([id |-> user.id, email |-> user.email], JWT_SECRET, 30, t)
generateToken(user, t) ==
    jwtSign([id |-> user.id, email |-> user.email], JWT_SECRET, THIRTY_DAYS, t)

\* jwt.verify(token, secret) at clock t.
jwtVerify(tok, secret, t) ==
    IF tok.key # secret THEN [ok |-> FALSE, name |-> "JsonWebTokenError"]
    ELSE IF Timestamp(t) >= tok.exp THEN [ok |-> FALSE, name |-> "TokenExpiredError"]
    ELSE [ok |-> TRUE, id |-> tok.id, email |-> tok.email]

\* ------------------------------------------------------------- the handlers
NoResult == [err |-> "pending", id |-> 0, email |-> Undefined]
NoResp == [status |-> 0, body |-> [pending |-> TRUE]]
Epoch == [s |-> 0, ms |-> 0]

InvalidTokenError(p) == IF p = "google" THEN "Invalid Google token" ELSE "Invalid Apple token"

\* res.status(400).json({ error: 'Missing idToken' })
MissingResp == [status |-> 400, body |-> [error |-> "Missing idToken"]]
\* catch (err) { res.status(401).json({ ok: false, error: 'Invalid ... token' }) }
CatchResp(p) == [status |-> 401, body |-> [ok |-> FALSE, error |-> InvalidTokenError(p)]]
\* res.json({ ok: true, token, user })
OkResp(token, user) ==
    [status |-> 200, body |-> [ok |-> TRUE, token |-> token, user |-> user]]

Init ==
    /\ envSecret \in {Undefined, "s3cr3t"}
    /\ emailNotNull \in BOOLEAN
    /\ users = {}
    /\ nextId = 1
    /\ pc = [r \in Reqs |-> "idle"]
    /\ endpoint = [r \in Reqs |-> "google"]
    /\ idToken = [r \in Reqs |-> NoToken]
    /\ verifier = [r \in Reqs |-> "not called"]
    /\ email = [r \in Reqs |-> Undefined]
    /\ result = [r \in Reqs |-> NoResult]
    /\ resp = [r \in Reqs |-> NoResp]
    /\ log = [r \in Reqs |-> <<>>]
    /\ now = Epoch
    /\ issued = {}
    /\ verdict = [made |-> FALSE]

\* The request arrives and the handler runs to its first await: it reads
\* req.body.idToken, answers 400 when it is missing, and otherwise calls the
\* provider's verifier.
Receive(r, p, t) ==
    /\ pc[r] = "idle"
    /\ endpoint' = [endpoint EXCEPT ![r] = p]
    /\ idToken' = [idToken EXCEPT ![r] = t]
    /\ IF MissingIdToken(t)
       THEN /\ resp' = [resp EXCEPT ![r] = MissingResp]
            /\ log' = [log EXCEPT ![r] = Append(@, "respond")]
            /\ pc' = [pc EXCEPT ![r] = "done"]
            /\ UNCHANGED verifier
       ELSE /\ log' = [log EXCEPT ![r] = Append(@, "verify")]
            /\ verifier' = [verifier EXCEPT ![r] = "pending"]
            /\ pc' = [pc EXCEPT ![r] = "verifying"]
            /\ UNCHANGED resp
    /\ UNCHANGED <<email, result, now, dbVars, envVars, tokVars>>

\* The verifier settles.  When it throws the catch block answers 401; when
\* it resolves the handler takes the email and sends the upsert statement.
VerifyReturn(r) ==
    /\ pc[r] = "verifying"
    /\ IF verifyIdToken(idToken[r], ClientId(endpoint[r]))
       THEN /\ verifier' = [verifier EXCEPT ![r] = "resolved"]
            /\ email' = [email EXCEPT ![r] = ExtractEmail(endpoint[r], idToken[r])]
            /\ log' = [log EXCEPT ![r] = Append(@, "upsert")]
            /\ pc' = [pc EXCEPT ![r] = "querying"]
            /\ UNCHANGED resp
       ELSE /\ verifier' = [verifier EXCEPT ![r] = "rejected"]
            /\ resp' = [resp EXCEPT ![r] = CatchResp(endpoint[r])]
            /\ log' = [log EXCEPT ![r] = Append(@, "respond")]
            /\ pc' = [pc EXCEPT ![r] = "done"]
            /\ UNCHANGED email
    /\ UNCHANGED <<endpoint, idToken, result, now, dbVars, envVars, tokVars>>

\* The same with a timeout taken for a verdict: the handler goes on to the
\* upsert with what the unverified token says.
VerifyTimeoutFailOpen(r) ==
    /\ pc[r] = "verifying"
    /\ verifier' = [verifier EXCEPT ![r] = "timeout"]
    /\ email' = [email EXCEPT ![r] = ExtractEmail(endpoint[r], idToken[r])]
    /\ log' = [log EXCEPT ![r] = Append(@, "upsert")]
    /\ pc' = [pc EXCEPT ![r] = "querying"]
    /\ UNCHANGED <<endpoint, idToken, result, resp, now, dbVars, envVars, tokVars>>

\* The provider's key server does not answer and the pending verifyIdToken
\* call is failed by a timeout: it rejects, whatever the token, and the catch
\* block answers 401.  Until then the request waits at its await, holding
\* nothing.
VerifyTimeout(r) ==
    /\ pc[r] = "verifying"
    /\ verifier' = [verifier EXCEPT ![r] = "timeout"]
    /\ resp' = [resp EXCEPT ![r] = CatchResp(endpoint[r])]
    /\ log' = [log EXCEPT ![r] = Append(@, "respond")]
    /\ pc' = [pc EXCEPT ![r] = "done"]
    /\ UNCHANGED <<endpoint, idToken, email, result, now, dbVars, envVars, tokVars>>

\* The store executes the statement of request r, as one atomic statement.
QueryExec(r) ==
    /\ pc[r] = "querying"
    /\ LET o == upsertUser(users, nextId, emailNotNull, email[r], endpoint[r]) IN
       /\ users' = o.users
       /\ nextId' = o.nextId
       /\ result' = [result EXCEPT ![r] = [err |-> o.err, id |-> o.id, email |-> o.email]]
    /\ pc' = [pc EXCEPT ![r] = "resumed"]
    /\ UNCHANGED <<endpoint, idToken, verifier, email, resp, log, now, envVars, tokVars>>

\* The store cannot be reached: pool.query rejects and nothing is written.
QueryFail(r) ==
    /\ pc[r] = "querying"
    /\ result' = [result EXCEPT ![r] = [err |-> "unavailable", id |-> 0, email |-> Null]]
    /\ pc' = [pc EXCEPT ![r] = "resumed"]
    /\ UNCHANGED <<endpoint, idToken, verifier, email, resp, log, now, dbVars, envVars, tokVars>>

\* The same with the upsert's rejection swallowed: the token is signed for
\* whatever came back.
RespondIgnoringError(r) ==
    /\ pc[r] = "resumed"
    /\ LET user == [id |-> result[r].id, email |-> result[r].email]
           token == generateToken(user, now) IN
       /\ resp' = [resp EXCEPT ![r] = OkResp(token, user)]
       /\ log' = [log EXCEPT ![r] = @ \o <<"sign", "respond">>]
    /\ pc' = [pc EXCEPT ![r] = "done"]
    /\ UNCHANGED <<endpoint, idToken, verifier, email, result, now, dbVars, envVars, tokVars>>

\* The handler resumes after await upsertUser(...): on a row it signs the
\* session token and answers 200, on an error the catch block answers 401.
Respond(r) ==
    /\ pc[r] = "resumed"
    /\ IF result[r].err = "none"
       THEN LET user == [id |-> result[r].id, email |-> result[r].email]
                token == generateToken(user, now) IN
            /\ resp' = [resp EXCEPT ![r] = OkResp(token, user)]
            /\ log' = [log EXCEPT ![r] = @ \o <<"sign", "respond">>]
       ELSE /\ resp' = [resp EXCEPT ![r] = CatchResp(endpoint[r])]
            /\ log' = [log EXCEPT ![r] = Append(@, "respond")]
    /\ pc' = [pc EXCEPT ![r] = "done"]
    /\ UNCHANGED <<endpoint, idToken, verifier, email, result, now, dbVars, envVars, tokVars>>

Next ==
    \/ \E r \in Reqs, p \in Providers : \E t \in TokensFor(p) : Receive(r, p, t)
    \/ \E r \in Reqs : VerifyReturn(r)
    \/ \E r \in Reqs : VerifyTimeout(r)
    \/ \E r \in Reqs : QueryExec(r)
    \/ \E r \in Reqs : QueryFail(r)
    \/ \E r \in Reqs : Respond(r)

Spec == Init /\ [][Next]_vars

\* The same handlers with the first request sent to a provider whose key
\* server does not answer: its verifyIdToken call never settles by itself and
\* can only be failed by a timeout, if one comes at all.  The other requests
\* have their awaited calls settle (the verifier answers or times out, the
\* store answers or fails) and their continuations run; nothing is assumed
\* of the first.
Others == Reqs \ {1}
NextPending ==
    \/ \E r \in Reqs, p \in Providers : \E t \in TokensFor(p) : Receive(r, p, t)
    \/ \E r \in Others : VerifyReturn(r)
    \/ \E r \in Reqs : VerifyTimeout(r)
    \/ \E r \in Others : QueryExec(r)
    \/ \E r \in Others : QueryFail(r)
    \/ \E r \in Others : Respond(r)

SpecPending ==
    /\ Init /\ [][NextPending]_vars
    /\ \A r \in Others :
        /\ WF_vars(VerifyReturn(r) \/ VerifyTimeout(r))
        /\ WF_vars(QueryExec(r) \/ QueryFail(r))
        /\ WF_vars(Respond(r))

\* ------------------------------------------------- the token specification
\* generateToken and the verification of what it issued, against a clock
\* that runs in half seconds and can skip most of the thirty days.
TokenUsers == {[id |-> 7, email |-> "a@b.com"], [id |-> 8, email |-> "b@x.com"]}

Tick ==
    /\ \/ now.s < MaxSec
       \/ now.s >= THIRTY_DAYS - 1 /\ now.s < THIRTY_DAYS + MaxSec
    /\ now' = IF now.ms = 0 THEN [s |-> now.s, ms |-> 500]
              ELSE [s |-> now.s + 1, ms |-> 0]
    /\ UNCHANGED <<reqVars, dbVars, envVars, tokVars>>

Leap ==
    /\ now.s <= MaxSec
    /\ now' = [s |-> now.s + (THIRTY_DAYS - 1), ms |-> now.ms]
    /\ UNCHANGED <<reqVars, dbVars, envVars, tokVars>>

Issue(u) ==
    /\ Cardinality(issued) < MaxIssued
    /\ issued' = issued \cup {[tok |-> generateToken(u, now), user |-> u, at |-> now]}
    /\ UNCHANGED <<reqVars, dbVars, envVars, now, verdict>>

Check(i) ==
    /\ i \in issued
    /\ verdict' = [made |-> TRUE, entry |-> i, when |-> now,
                   res |-> jwtVerify(i.tok, JWT_SECRET, now)]
    /\ UNCHANGED <<reqVars, dbVars, envVars, now, issued>>

NextToken ==
    \/ Tick
    \/ Leap
    \/ \E u \in TokenUsers : Issue(u)
    \/ \E i \in issued : Check(i)

SpecToken == Init /\ [][NextToken]_vars

\* ================================================================== claims
Received(r) == pc[r] # "idle"
Done(r) == pc[r] = "done"
\* The assertion of request r passes every check of its provider.
GoodAssertion(r) ==
    /\ idToken[r].kind = "jwt"
    /\ idToken[r].sigOk /\ ~idToken[r].expired
    /\ idToken[r].aud = (IF endpoint[r] = "google" THEN GOOGLE_CLIENT_ID ELSE APPLE_CLIENT_ID)
\* The assertion of request r has a wrong audience, is expired or is badly signed.
BadAssertion(r) ==
    /\ idToken[r].kind = "jwt"
    /\ \/ ~idToken[r].sigOk
       \/ idToken[r].expired
       \/ idToken[r].aud # (IF endpoint[r] = "google" THEN GOOGLE_CLIENT_ID ELSE APPLE_CLIENT_ID)
RowsFor(e) == {u \in users : u.email = e}
StoreFailed(r) == result[r].err \notin {"pending", "none"}

\* C1: requests that sign in concurrently with valid assertions for the same
\* email leave at most one row for it (exactly one once any of them has run
\* its upsert), never meet a duplicate-key error, are never blocked (each one
\* in flight has a step it can take whatever the others do), and all answer
\* 200 with the same user id, as long as the provider's key server and the
\* store answer them.
C1_ConcurrentFirstSignIn ==
    \A e \in Emails :
        LET S == {r \in Reqs : Received(r) /\ GoodAssertion(r) /\ idToken[r].email = e} IN
        /\ Cardinality(RowsFor(e)) <= 1
        /\ (\E r \in S : result[r].err = "none") => Cardinality(RowsFor(e)) = 1
        /\ \A r \in S :
            /\ result[r].err \in {"pending", "none", "unavailable"}
            /\ ~Done(r) => ENABLED (VerifyReturn(r) \/ QueryExec(r) \/ Respond(r))
            /\ (Done(r) /\ verifier[r] # "timeout" /\ result[r].err # "unavailable") =>
                    /\ resp[r].status = 200
                    /\ \A u \in RowsFor(e) : resp[r].body.user.id = u.id
        /\ \A r1, r2 \in S :
            (Done(r1) /\ Done(r2) /\ resp[r1].status = 200 /\ resp[r2].status = 200)
                => resp[r1].body.user.id = resp[r2].body.user.id

\* Two requests for the same new email whose upserts both ran while neither
\* had answered yet, and which hold the same id.
C1_Witness ==
    \E r1, r2 \in Reqs :
        /\ r1 # r2
        /\ GoodAssertion(r1) /\ GoodAssertion(r2)
        /\ idToken[r1].email = "a@x.com" /\ idToken[r2].email = "a@x.com"
        /\ pc[r1] = "resumed" /\ pc[r2] = "resumed"
        /\ result[r1].err = "none" /\ result[r2].err = "none"
        /\ result[r1].id = result[r2].id
        /\ Cardinality(RowsFor("a@x.com")) = 1

\* A request with a bad assertion waits for the verifier or has been answered
\* 401 with the body of its endpoint.
C2_Answered401 ==
    \A r \in Reqs : (Received(r) /\ BadAssertion(r)) =>
        /\ pc[r] \in {"verifying", "done"}
        /\ Done(r) =>
            resp[r] = [status |-> 401,
                       body |-> [ok |-> FALSE,
                                 error |-> IF endpoint[r] = "google"
                                           THEN "Invalid Google token"
                                           ELSE "Invalid Apple token"]]
\* No step of a request with a bad assertion writes to the store.
C2_NoWrite ==
    \A r \in Reqs :
        (pc'[r] # pc[r] /\ idToken'[r].kind = "jwt" /\
         (~idToken'[r].sigOk \/ idToken'[r].expired \/ idToken'[r].aud # ClientId(endpoint'[r])))
            => (users' = users /\ nextId' = nextId)

\* C2: a request whose provider token fails verification (wrong audience,
\* expired, bad signature) never reaches the store, is answered 401 with
\* {ok: false, error: 'Invalid Google token'} (resp. Apple), and none of its
\* steps changes the users table.
C2_InvalidTokenRejected == [](C2_Answered401) /\ [][C2_NoWrite]_vars

\* One request of each endpoint rejected, with a row in the table that they
\* left alone.
C2_Witness ==
    \E r1, r2 \in Reqs :
        /\ endpoint[r1] = "google" /\ endpoint[r2] = "apple"
        /\ BadAssertion(r1) /\ BadAssertion(r2)
        /\ idToken[r1].expired /\ ~idToken[r2].sigOk
        /\ Done(r1) /\ Done(r2)
        /\ resp[r1].status = 401 /\ resp[r2].status = 401

\* C3: a request without idToken (absent or the empty string) is answered at
\* once with 400 {error: 'Missing idToken'}; it calls neither the verifier
\* nor the store and signs no token.
C3_MissingIdToken ==
    \A r \in Reqs : (Received(r) /\ idToken[r].kind \in {"undefined", "empty"}) =>
        /\ Done(r)
        /\ resp[r] = [status |-> 400, body |-> [error |-> "Missing idToken"]]
        /\ log[r] = <<"respond">>
        /\ result[r] = NoResult

C3_Witness ==
    \E r1, r2 \in Reqs :
        /\ endpoint[r1] = "google" /\ endpoint[r2] = "apple"
        /\ idToken[r1].kind = "undefined" /\ idToken[r2].kind = "empty"
        /\ resp[r1].status = 400 /\ resp[r2].status = 400

\* C4: the table holds one row per email, and every successful sign-in for
\* an email carries the id of that row: the id a first sign-in returned is
\* the id every later one returns.
C4_OneRowStableId ==
    /\ \A u1, u2 \in users : (u1.email = u2.email /\ u1.email # Null) => u1 = u2
    /\ \A u1, u2 \in users : u1.id = u2.id => u1 = u2
    /\ \A r \in Reqs : (Done(r) /\ resp[r].status = 200 /\ resp[r].body.user.email # Null) =>
            /\ Cardinality(RowsFor(resp[r].body.user.email)) = 1
            /\ \A u \in RowsFor(resp[r].body.user.email) : u.id = resp[r].body.user.id

\* The same email signed in through both providers, with another email's
\* row beside it.
C4_Witness ==
    \E r1, r2 \in Reqs :
        /\ endpoint[r1] = "google" /\ endpoint[r2] = "apple"
        /\ Done(r1) /\ Done(r2)
        /\ resp[r1].status = 200 /\ resp[r2].status = 200
        /\ resp[r1].body.user.email = "b@x.com"
        /\ resp[r2].body.user = resp[r1].body.user

C6_StoreFailureIs500 ==
    \A r \in Reqs : (Done(r) /\ StoreFailed(r)) => resp[r].status = 500

\* C7, as claimed: a 200 response carries, in the token and in the user
\* object, the email claim of the provider's assertion.
C7_EmailIsAsserted ==
    \A r \in Reqs : (Done(r) /\ resp[r].status = 200) =>
        /\ idToken[r].email \in Emails
        /\ resp[r].body.user.email = idToken[r].email
        /\ resp[r].body.token.email = idToken[r].email

\* Instants of the clock, compared to the millisecond.
Before(t1, t2) == t1.s < t2.s \/ (t1.s = t2.s /\ t1.ms < t2.ms)
Plus30d(t) == [s |-> t.s + 2592000, ms |-> t.ms]

\* C8, as claimed: a token checked before its instant of issue plus 30 days
\* gives back the id and email, and one checked after it fails as expired.
C8_RoundTripExact ==
    verdict.made =>
        /\ Before(verdict.when, Plus30d(verdict.entry.at)) =>
              verdict.res = [ok |-> TRUE, id |-> verdict.entry.user.id,
                             email |-> verdict.entry.user.email]
        /\ Before(Plus30d(verdict.entry.at), verdict.when) =>
              verdict.res = [ok |-> FALSE, name |-> "TokenExpiredError"]

\* The verdict on a token, by the whole seconds of issue and of checking.
C8_Verdict ==
    verdict.made =>
        IF verdict.when.s < verdict.entry.at.s + 2592000
        THEN verdict.res = [ok |-> TRUE, id |-> verdict.entry.user.id,
                            email |-> verdict.entry.user.email]
        ELSE verdict.res = [ok |-> FALSE, name |-> "TokenExpiredError"]
\* Issuing keeps every earlier token, and its verdict at the same instant.
C8_Independent ==
    /\ issued \subseteq issued'
    /\ \A i \in issued :
        now' = now => jwtVerify(i.tok, JWT_SECRET', now') = jwtVerify(i.tok, JWT_SECRET, now)

\* C8, amended: with both instants cut to whole seconds, a token checked
\* before the second of its issue plus 30 days gives back the id and email,
\* and one checked at or after that second fails as expired; issuing further
\* tokens revokes none and changes no earlier token's validity.
C8_RoundTripSeconds == [](C8_Verdict) /\ [][C8_Independent]_vars

\* The first of two tokens of one user, checked and found expired.
C8_Witness ==
    /\ verdict.made
    /\ verdict.res = [ok |-> FALSE, name |-> "TokenExpiredError"]
    /\ \E j \in issued :
        /\ j # verdict.entry
        /\ j.user = verdict.entry.user
        /\ Before(verdict.entry.at, j.at)
        /\ jwtVerify(j.tok, JWT_SECRET, now).ok

\* C9, as claimed: without a configured signing secret no token is signed.
C9_NoTokenWithoutSecret ==
    envSecret = Undefined =>
        \A r \in Reqs : resp[r].status # 200 /\ \A k \in 1 .. Len(log[r]) : log[r][k] # "sign"

\* How often, and where, a call occurs in a request's log.
Count(seq, x) == Cardinality({k \in 1 .. Len(seq) : seq[k] = x})
Pos(seq, x) == CHOOSE k \in 1 .. Len(seq) : seq[k] = x

\* C10: a request calls the verifier, the upsert and the signer at most once
\* each and in that order, answers last, calls the upsert only for an
\* assertion the verifier accepted, signs only after the upsert returned a
\* row, and answers without a token when the upsert failed.
C10_OrderedNoRetry ==
    \A r \in Reqs :
        LET l == log[r] IN
        /\ \A x \in {"verify", "upsert", "sign", "respond"} : Count(l, x) <= 1
        /\ Count(l, "upsert") = 1 =>
              Count(l, "verify") = 1 /\ Pos(l, "verify") < Pos(l, "upsert") /\ GoodAssertion(r)
        /\ Count(l, "sign") = 1 =>
              /\ Count(l, "upsert") = 1 /\ Pos(l, "upsert") < Pos(l, "sign")
              /\ result[r].err = "none"
        /\ Count(l, "respond") = 1 => Pos(l, "respond") = Len(l) /\ Done(r)
        /\ result[r].err # "pending" => Count(l, "upsert") = 1
        /\ (Done(r) /\ StoreFailed(r)) =>
              /\ Count(l, "sign") = 0
              /\ resp[r].status # 200
              /\ resp[r].body = [ok |-> FALSE,
                                 error |-> IF endpoint[r] = "google"
                                           THEN "Invalid Google token"
                                           ELSE "Invalid Apple token"]

\* One request stopped at a failed upsert beside one that ran all four steps.
C10_Witness ==
    \E r1, r2 \in Reqs :
        /\ log[r1] = <<"verify", "upsert", "respond">>
        /\ result[r1].err = "unavailable"
        /\ log[r2] = <<"verify", "upsert", "sign", "respond">>

\* A request waiting for its verifier has sent nothing to the store, and one
\* whose verifier timed out was answered 401 without a token and never
\* reached the store or the signer.
C11_PendingHoldsNothing ==
    \A h \in Reqs :
        /\ verifier[h] = "pending" =>
              /\ pc[h] = "verifying"
              /\ result[h] = NoResult /\ log[h] = <<"verify">>
              /\ \A r \in Reqs \ {h} :
                    (Received(r) /\ ~Done(r) /\ verifier[r] # "pending") =>
                        ENABLED (QueryExec(r) \/ QueryFail(r) \/ Respond(r))
        /\ verifier[h] = "timeout" =>
              /\ Done(h)
              /\ resp[h].status = 401 /\ resp[h].body.ok = FALSE
              /\ result[h] = NoResult /\ log[h] = <<"verify", "respond">>
\* Neither the step that starts a verification nor the one that fails it by
\* a timeout writes to the store.
C11_NoWrite ==
    \A h \in Reqs :
        (verifier'[h] # verifier[h] /\ verifier'[h] \in {"pending", "timeout"})
            => (users' = users /\ nextId' = nextId)
\* Every other request that has arrived is answered.
C11_OthersComplete == \A r \in Others : [](Received(r) => <>Done(r))

\* C11: a request whose verification is pending has written nothing to the
\* users table and holds nothing that another request waits for: every other
\* request whose own verifier and store calls settle is answered, even when
\* the first request's verifier never returns; and a verification failed by
\* a timeout ends its request with 401, no token and no write to the store.
C11_PendingVerificationIsolated ==
    /\ [](C11_PendingHoldsNothing)
    /\ [][C11_NoWrite]_vars
    /\ C11_OthersComplete

\* The first request still waits for its verifier while another request for
\* the same email has written the row and been answered 200.
C11_Witness ==
    \E r \in Others :
        /\ verifier[1] = "pending"
        /\ GoodAssertion(1) /\ idToken[1].email = "a@x.com"
        /\ Done(r) /\ resp[r].status = 200
        /\ resp[r].body.user.email = "a@x.com"
        /\ Cardinality(RowsFor("a@x.com")) = 1

\* Two requests signed in for different accounts: their assertions name
\* different emails, or name none and come from different accounts.
DifferentIdentity(r1, r2) ==
    \/ idToken[r1].email # idToken[r2].email
    \/ /\ idToken[r1].email = Undefined
       /\ <<endpoint[r1], idToken[r1].sub>> # <<endpoint[r2], idToken[r2].sub>>

\* C12, as claimed: two successful sign-ins for different identities never
\* receive the same user id, that is, never share a users row.
C12_IdentitiesDoNotShare ==
    \A r1, r2 \in Reqs :
        (/\ Done(r1) /\ resp[r1].status = 200
         /\ Done(r2) /\ resp[r2].status = 200
         /\ DifferentIdentity(r1, r2))
            => resp[r1].body.user.id # resp[r2].body.user.id

====
